---- MODULE Spec2Model ----
(***************************************************************************)
(* Gaussian-plume pollution kernel: cs_module.c (update_pollution,         *)
(* update_pollution_multiple and their helpers) and spam_module.c          *)
(* (update_pollution).                                                     *)
(*                                                                         *)
(* Numbers.  Positions, bounds and speeds are integers in physical units.  *)
(* Rational quantities are kept exact as scaled integers:                  *)
(*   emission rate    in 1/1000  (0.1 * speed_factor * emission_factor)    *)
(*   speed factor     in 1/100                                             *)
(*   plume height     in 1/100                                             *)
(*   coefficients a,b in 1/1000                                            *)
(*   dx, dy           in 1/(2*grid_resolution) (cell centres are exact)    *)
(* The concentration itself uses sqrt, atan2, pow and exp; it is kept as   *)
(* the record of the operands the source feeds into that formula, so two   *)
(* concentrations are the same value when they are computed from the same  *)
(* operands.  A grid cell holds a real number, kept as the bag of the      *)
(* terms added to it, each with the number of times it has since been      *)
(* multiplied by 0.99: the cell's value is the sum of term * 0.99^d.  A    *)
(* cell holding 0.0 is the empty bag, so that 0.0 * 0.99 = 0.0.  Sums are  *)
(* those of real numbers: floating-point rounding is not modelled, and the *)
(* quotients of the window computation are exact rationals.                *)
(*                                                                         *)
(* Every call is taken past PyArg_ParseTuple with a two-dimensional array  *)
(* of doubles of Rows x Cols elements: the marshalling of arguments is the *)
(* host's side of the interface.  The history variables pre and last hold  *)
(* the grid before the latest call and that call's arguments and outcome.  *)
(***************************************************************************)
EXTENDS Integers, Sequences, FiniteSets, Bags, TLC

VARIABLES grid, pre, last, calls

vars == <<grid, pre, last, calls>>

(* ------------------------------ bounds -------------------------------- *)

\* dims[0] and dims[1] of the NumPy grid the host passes in.
Rows == 4
Cols == 4
\* Longest vehicle list handed to update_pollution_multiple.
MaxVehicles == 2
\* Calls made on one grid.
MaxCalls == 1

(* ------------------------- program constants -------------------------- *)

InfluenceRadius == 100
NearCutoffSquared == 1
FarCutoff == 300
SpeedThreshold == 20
BaseEmissionTenths == 1
MinPlumeCenti == 200

Cells == (0 .. Rows - 1) \X (0 .. Cols - 1)

(* --------------------------- cell arithmetic -------------------------- *)

\* A cell holding the value v that no call has touched yet.
CellOf(v) == IF v = 0 THEN EmptyBag ELSE SetToBag({[c |-> [init |-> v], d |-> 0]})

Decayed(m) == [m EXCEPT !.d = @ + 1]

\* data[i] *= 0.99
DecayCell(cell) == BagOfAll(Decayed, cell)

\* data[...] = concentration: the cell is overwritten, not accumulated.
AddConcentration_Overwrites(cell, concentration) == SetToBag({[c |-> concentration, d |-> 0]})

\* data[...] += concentration
AddConcentration(cell, concentration) == cell (+) SetToBag({[c |-> concentration, d |-> 0]})

\* The decay loop started at i = 1: element 0 is never multiplied.
ApplyDecay_SkipsFirst(g) == [c \in Cells |-> IF c = <<0, 0>> THEN g[c] ELSE DecayCell(g[c])]

\* for (i = 0; i < size; i++) data[i] *= 0.99;
ApplyDecay(g) == [c \in Cells |-> DecayCell(g[c])]

(* ------------------------------ geometry ------------------------------ *)

\* (int) of the quotient num/den, den > 0: C truncates toward zero.
Trunc(num, den) == IF num >= 0 THEN num \div den ELSE -((-num) \div den)

\* dx and dy of cell (i, j) from the source, both times 2*grid_resolution.
ScaledDx(geom, j, x) ==
    2 * geom.grid_resolution * geom.x_min + (2 * j + 1) * (geom.x_max - geom.x_min)
        - 2 * geom.grid_resolution * x

ScaledDy(geom, i, y) ==
    2 * geom.grid_resolution * geom.y_min + (2 * i + 1) * (geom.y_max - geom.y_min)
        - 2 * geom.grid_resolution * y

ScaledDistanceSquared(geom, i, j, x, y) ==
    ScaledDx(geom, j, x) * ScaledDx(geom, j, x) + ScaledDy(geom, i, y) * ScaledDy(geom, i, y)

\* distance_squared < 1.0
NearField(geom, i, j, x, y) ==
    ScaledDistanceSquared(geom, i, j, x, y)
        < NearCutoffSquared * (2 * geom.grid_resolution) * (2 * geom.grid_resolution)

\* distance > 300.0
FarField(geom, i, j, x, y) ==
    ScaledDistanceSquared(geom, i, j, x, y)
        > (FarCutoff * 2 * geom.grid_resolution) * (FarCutoff * 2 * geom.grid_resolution)

(* ------------------------------ helpers ------------------------------- *)

\* The coefficient pair (a, b) chosen by the strcmp cascade, in 1/1000.
calculate_dispersion_coefficients(stability_class) ==
    IF stability_class = "A" THEN [a |-> 220, b |-> 200]
    ELSE IF stability_class = "B" THEN [a |-> 160, b |-> 120]
    ELSE IF stability_class = "C" THEN [a |-> 110, b |-> 80]
    ELSE IF stability_class = "D" THEN [a |-> 80, b |-> 60]
    ELSE IF stability_class = "E" THEN [a |-> 60, b |-> 30]
    ELSE IF stability_class = "F" THEN [a |-> 40, b |-> 16]
    ELSE [a |-> 100, b |-> 50]

\* speed_factor in 1/100.
SpeedFactor(vehicle_speed) ==
    IF vehicle_speed > SpeedThreshold THEN 100 + 5 * (vehicle_speed - SpeedThreshold) ELSE 100

\* The high-speed boost left out: speed_factor is always 1.
calculate_emission_rate_NoBoost(vehicle_speed, emission_factor) ==
    BaseEmissionTenths * 100 * emission_factor

\* base_emission (1/10) * speed_factor (1/100) * emission_factor, in 1/1000.
calculate_emission_rate(vehicle_speed, emission_factor) ==
    BaseEmissionTenths * SpeedFactor(vehicle_speed) * emission_factor

\* Plume height in 1/100.
calculate_plume_rise(vehicle_speed) ==
    IF vehicle_speed * 15 + 50 > MinPlumeCenti THEN vehicle_speed * 15 + 50 ELSE MinPlumeCenti

\* The operands of the concentration formula for cell (i, j).
Concentration(emission_rate, wind_speed, wind_direction, plume_height, coef, geom, i, j, x, y) ==
    [q |-> emission_rate, u |-> wind_speed, wd |-> wind_direction, h |-> plume_height,
     a |-> coef.a, b |-> coef.b,
     dx |-> ScaledDx(geom, j, x), dy |-> ScaledDy(geom, i, y), s |-> 2 * geom.grid_resolution]

(* ------------------- cs_module.c: update_pollution -------------------- *)

\* The cells of the window that pass both cutoffs (cs_module.c's loop body).
CellsReached(i_min, i_max, j_min, j_max, geom, x, y) ==
    {w \in (i_min .. i_max - 1) \X (j_min .. j_max - 1) :
        /\ ~NearField(geom, w[1], w[2], x, y)
        /\ ~FarField(geom, w[1], w[2], x, y)}

\* The inlined coefficients of update_pollution: sigma_y = 0.1 * ..., sigma_z = 0.05 * ...
InlineCoefficients == [a |-> 100, b |-> 50]

update_pollution(g, args) ==
    IF args.i_min < 0 \/ args.i_max > Rows \/ args.j_min < 0 \/ args.j_max > Cols
    THEN [status |-> "IndexError", grid |-> g, written |-> {}, oob |-> {}]
    ELSE LET W == CellsReached(args.i_min, args.i_max, args.j_min, args.j_max,
                               args.geom, args.x, args.y)
         IN  [status |-> "ok",
              grid |-> [c \in Cells |->
                          IF c \in W
                          THEN AddConcentration(g[c],
                                   Concentration(args.emission_rate, args.wind_speed,
                                       args.wind_direction, args.plume_height,
                                       InlineCoefficients, args.geom, c[1], c[2],
                                       args.x, args.y))
                          ELSE g[c]],
              written |-> W,
              oob |-> {}]

(* ------------------ spam_module.c: update_pollution ------------------- *)

\* The loop indices spam_module.c adds a concentration at: only distance < 1.0 is skipped.
SpamCellsReached(i_min, i_max, j_min, j_max, geom, x, y) ==
    {w \in (i_min .. i_max - 1) \X (j_min .. j_max - 1) :
        ~NearField(geom, w[1], w[2], x, y)}

\* data[i * grid_resolution + j]
SpamOffset(geom, w) == w[1] * geom.grid_resolution + w[2]

\* double a = 0.10, b = 0.05;
SpamCoefficients == [a |-> 100, b |-> 50]

\* The grid is taken to be a contiguous Rows x Cols buffer, of which element
\* (r, c) sits at offset r * Cols + c.  An offset outside the buffer is a write
\* to memory the grid does not own.
spam_update_pollution(g, args) ==
    LET W == SpamCellsReached(args.i_min, args.i_max, args.j_min, args.j_max,
                              args.geom, args.x, args.y)
        Conc(w) == Concentration(args.emission_rate, args.wind_speed, args.wind_direction,
                                 args.plume_height, SpamCoefficients, args.geom,
                                 w[1], w[2], args.x, args.y)
    IN  [status |-> "ok",
         grid |-> [c \in Cells |->
                     g[c] (+) SetToBag({[c |-> Conc(w), d |-> 0] :
                                  w \in {v \in W : SpamOffset(args.geom, v) = c[1] * Cols + c[2]}})],
         written |-> W,
         oob |-> {SpamOffset(args.geom, w) : w \in W} \ (0 .. Rows * Cols - 1)]

(* --------------- cs_module.c: update_pollution_multiple --------------- *)

\* !PyTuple_Check(vehicle_tuple) || PyTuple_Size(vehicle_tuple) != 3
Malformed(vehicle) == ~vehicle.is_tuple \/ Len(vehicle.items) # 3

\* (int)fmax(0.0, (p - p_min - 100.0) / (p_max - p_min) * grid_resolution)
WindowMin(p, p_min, p_max, grid_resolution) ==
    IF (p - p_min - InfluenceRadius) * grid_resolution <= 0
    THEN 0
    ELSE Trunc((p - p_min - InfluenceRadius) * grid_resolution, p_max - p_min)

\* (int)fmin((double)dim, (p - p_min + 100.0) / (p_max - p_min) * grid_resolution)
WindowMax(p, p_min, p_max, grid_resolution, dim) ==
    IF (p - p_min + InfluenceRadius) * grid_resolution >= dim * (p_max - p_min)
    THEN dim
    ELSE Trunc((p - p_min + InfluenceRadius) * grid_resolution, p_max - p_min)

Window(x, y, geom) ==
    [i_min |-> WindowMin(y, geom.y_min, geom.y_max, geom.grid_resolution),
     i_max |-> WindowMax(y, geom.y_min, geom.y_max, geom.grid_resolution, Rows),
     j_min |-> WindowMin(x, geom.x_min, geom.x_max, geom.grid_resolution),
     j_max |-> WindowMax(x, geom.x_min, geom.x_max, geom.grid_resolution, Cols)]

\* One pass of the vehicle loop for a well-formed tuple (x, y, speed).
VehicleUpdate(g, vehicle, args) ==
    LET x == vehicle.items[1]
        y == vehicle.items[2]
        vehicle_speed == vehicle.items[3]
        emission_rate == calculate_emission_rate(vehicle_speed, args.emission_factor)
        plume_height == calculate_plume_rise(vehicle_speed)
        win == Window(x, y, args.geom)
        W == CellsReached(win.i_min, win.i_max, win.j_min, win.j_max, args.geom, x, y)
    IN  [grid |-> [c \in Cells |->
                     IF c \in W
                     THEN AddConcentration(g[c],
                              Concentration(emission_rate, args.wind_speed, args.wind_direction,
                                  plume_height,
                                  calculate_dispersion_coefficients(args.stability_class),
                                  args.geom, c[1], c[2], x, y))
                     ELSE g[c]],
         window |-> win,
         written |-> W]

\* The vehicle loop from index v on; it returns at the first malformed entry.
RECURSIVE VehicleLoop(_, _, _, _, _)
VehicleLoop(g, windows, written, v, args) ==
    IF v > Len(args.vehicle_list)
    THEN [status |-> "ok", grid |-> g, windows |-> windows, written |-> written]
    ELSE IF Malformed(args.vehicle_list[v])
    THEN [status |-> "ValueError", grid |-> g, windows |-> windows, written |-> written]
    ELSE LET r == VehicleUpdate(g, args.vehicle_list[v], args)
         IN  VehicleLoop(r.grid, Append(windows, r.window), written \cup r.written, v + 1, args)

update_pollution_multiple(g, args) == VehicleLoop(ApplyDecay(g), <<>>, {}, 1, args)

(* ------------------------------- inputs ------------------------------- *)

Geometries ==
    {[x_min |-> 0, x_max |-> 100 * Cols, y_min |-> 0, y_max |-> 100 * Rows,
      grid_resolution |-> Cols]}

WindSpeeds == {-2, 0, 2}
WindDirections == {0}
StabilityClasses == {"D", "X"}
EmissionFactors == {1}

Tuple(x, y, speed) == [is_tuple |-> TRUE, items |-> <<x, y, speed>>]

VehicleEntries ==
    {Tuple(150, 150, 10), Tuple(250, 150, 30), [is_tuple |-> TRUE, items |-> <<150, 150>>]}

VehicleLists == UNION {[1 .. n -> VehicleEntries] : n \in 0 .. MaxVehicles}

BatchArgs ==
    [vehicle_list : VehicleLists, wind_speed : WindSpeeds, wind_direction : WindDirections,
     emission_factor : EmissionFactors, stability_class : StabilityClasses, geom : Geometries]

\* Windows the host may pass to update_pollution: the whole grid, an inner
\* block, an empty range, and windows one index outside each extent.
CallerWindows ==
    {<<0, Rows, 0, Cols>>, <<1, 3, 1, 3>>, <<2, 1, 0, Cols>>,
     <<-1, Rows, 0, Cols>>, <<0, Rows + 1, 0, Cols>>,
     <<0, Rows, -1, Cols>>, <<0, Rows, 0, Cols + 1>>}

\* The centre of cell (0, 0): that cell is in the near field, the far corner beyond 300 units.
SourcePositions == {<<50, 50>>}

SingleArgs ==
    {[i_min |-> w[1], i_max |-> w[2], j_min |-> w[3], j_max |-> w[4],
      x |-> p[1], y |-> p[2], emission_rate |-> 5000, plume_height |-> 200,
      wind_speed |-> u, wind_direction |-> wd, geom |-> geom] :
        w \in CallerWindows, p \in SourcePositions, u \in WindSpeeds,
        wd \in WindDirections, geom \in Geometries}

InitialValues == {0, 100}

(* ---------------------------- state machine --------------------------- *)

NoCall == [op |-> "none", status |-> "ok", written |-> {}, oob |-> {}, windows |-> <<>>]

Init ==
    /\ grid \in {[c \in Cells |-> CellOf(v)] : v \in InitialValues}
    /\ pre = grid
    /\ last = NoCall
    /\ calls = 0

CallUpdatePollution ==
    /\ calls < MaxCalls
    /\ \E args \in SingleArgs :
        LET r == update_pollution(grid, args)
        IN  /\ grid' = r.grid
            /\ last' = [op |-> "update_pollution", module |-> "cs_module", args |-> args,
                        status |-> r.status, written |-> r.written, oob |-> r.oob,
                        windows |-> <<>>]
    /\ pre' = grid
    /\ calls' = calls + 1

\* A write outside the buffer is undefined behaviour: the call may return
\* normally or the process may die on the stray write.
CallSpamUpdatePollution ==
    /\ calls < MaxCalls
    /\ \E args \in SingleArgs :
        LET r == spam_update_pollution(grid, args)
        IN  /\ grid' = r.grid
            /\ \E outcome \in (IF r.oob = {} THEN {"ok"} ELSE {"ok", "segfault"}) :
                last' = [op |-> "update_pollution", module |-> "spam_module", args |-> args,
                         status |-> outcome, written |-> r.written, oob |-> r.oob,
                         windows |-> <<>>]
    /\ pre' = grid
    /\ calls' = calls + 1

CallUpdatePollutionMultiple ==
    /\ calls < MaxCalls
    /\ \E args \in BatchArgs :
        LET r == update_pollution_multiple(grid, args)
        IN  /\ grid' = r.grid
            /\ last' = [op |-> "update_pollution_multiple", module |-> "cs_module",
                        args |-> args, status |-> r.status, written |-> r.written,
                        oob |-> {}, windows |-> r.windows]
    /\ pre' = grid
    /\ calls' = calls + 1

Next == CallUpdatePollution \/ CallSpamUpdatePollution \/ CallUpdatePollutionMultiple

Spec == Init /\ [][Next]_vars

(* --------------- the per-vehicle prologue, for any speed --------------- *)

MaxSpeed == 40
MaxEmissionFactor == 3

\* A list of two vehicles with any two speeds, and any emission factor.
InitDerive ==
    /\ grid = [c \in Cells |-> EmptyBag]
    /\ pre = grid
    /\ calls = 0
    /\ last \in [op : {"speeds"}, emission_factor : 1 .. MaxEmissionFactor,
                 vehicle_speed : (0 .. MaxSpeed) \X (0 .. MaxSpeed)]

\* Lines 248-252 of the vehicle loop: the emission rate and plume height
\* derived from each vehicle's speed.
DeriveVehicleParameters ==
    /\ last.op = "speeds"
    /\ last' = [op |-> "derive", emission_factor |-> last.emission_factor,
                vehicle_speed |-> last.vehicle_speed,
                emission_rate |->
                    <<calculate_emission_rate(last.vehicle_speed[1], last.emission_factor),
                      calculate_emission_rate(last.vehicle_speed[2], last.emission_factor)>>,
                plume_height |-> <<calculate_plume_rise(last.vehicle_speed[1]),
                                   calculate_plume_rise(last.vehicle_speed[2])>>]
    /\ UNCHANGED <<grid, pre, calls>>

SpecDerive == InitDerive /\ [][DeriveVehicleParameters]_vars

(* --------------- the per-vehicle window, for any position -------------- *)

\* Source coordinates run over -5*MaxOffset .. 5*MaxOffset in steps of 5.
MaxOffset == 60

SourceCoordinates == {5 * k : k \in -MaxOffset .. MaxOffset}

\* A grid of 100-unit cells, and one whose whole extent (40 units) is smaller
\* than the influence radius.
WindowGeometries ==
    {[x_min |-> 0, x_max |-> 100 * Cols, y_min |-> 0, y_max |-> 100 * Rows,
      grid_resolution |-> Cols],
     [x_min |-> 0, x_max |-> 10 * Cols, y_min |-> 0, y_max |-> 10 * Rows,
      grid_resolution |-> Cols]}

\* A vehicle at any position, inside the grid bounds or outside them.
InitWindow ==
    /\ grid = [c \in Cells |-> EmptyBag]
    /\ pre = grid
    /\ calls = 0
    /\ last \in [op : {"position"}, x : SourceCoordinates, y : SourceCoordinates,
                 geom : WindowGeometries]

\* Lines 255-258 of the vehicle loop: the window of the vehicle.
ComputeWindow ==
    /\ last.op = "position"
    /\ last' = [op |-> "window", x |-> last.x, y |-> last.y, geom |-> last.geom,
                window |-> Window(last.x, last.y, last.geom)]
    /\ UNCHANGED <<grid, pre, calls>>

SpecWindow == InitWindow /\ [][ComputeWindow]_vars

(* -------------------------------- claims ------------------------------ *)

Batch == last.op = "update_pollution_multiple"
BatchOk == Batch /\ last.status = "ok"
Single == last.op = "update_pollution"

\* The call was made with a physically valid wind speed, so that what it shows
\* does not rest on the missing wind-speed check (C2).
ValidWind == last.args.wind_speed > 0

InWindow(c, win) ==
    /\ win.i_min <= c[1] /\ c[1] < win.i_max
    /\ win.j_min <= c[2] /\ c[2] < win.j_max

InSomeWindow(c) == \E k \in 1 .. Len(last.windows) : InWindow(c, last.windows[k])

\* The terms of a cell that have been multiplied by 0.99 at least once.
OlderPart(cell) == [m \in {n \in DOMAIN cell : n.d >= 1} |-> cell[m]]

\* C1: a batch call whose list holds a malformed entry, at any position, fails
\* and leaves the grid exactly as it was: no decay, no earlier source applied.
C1_MalformedEntryLeavesGridUntouched ==
    (Batch /\ ValidWind
       /\ \E v \in 1 .. Len(last.args.vehicle_list) : Malformed(last.args.vehicle_list[v]))
        => (last.status # "ok" /\ grid = pre)

\* C2: both update_pollution and update_pollution_multiple reject a wind speed
\* that is zero or negative: the call fails and no grid cell is modified.
C2_NonPositiveWindRejected ==
    ((Single \/ Batch) /\ last.args.wind_speed <= 0)
        => (last.status # "ok" /\ grid = pre)

WindowOutsideExtents(args) ==
    args.i_min < 0 \/ args.i_max > Rows \/ args.j_min < 0 \/ args.j_max > Cols

\* C3: update_pollution with a window outside the grid extents fails before the
\* cell loop, writing nothing; a call that succeeds writes only cells with
\* 0 <= i < rows and 0 <= j < columns.
C3_WindowValidatedBeforeLoop ==
    (Single /\ ValidWind) =>
        /\ WindowOutsideExtents(last.args) =>
              (last.status \notin {"ok", "segfault"} /\ last.written = {} /\ grid = pre)
        /\ last.status = "ok" => last.written \subseteq Cells

\* C3 restricted to cs_module.c's update_pollution.
C3_CsModuleOnly == (Single /\ last.module = "cs_module") => C3_WindowValidatedBeforeLoop

\* C4: a class outside A..F raises no error and, wherever the call computes a
\* concentration, uses the pair of class "D", (0.10, 0.05), so the batch update
\* yields the grid that the same update with class "D" yields.
C4_UnknownClassActsAsD ==
    (Batch /\ ValidWind /\ last.args.stability_class \notin {"A", "B", "C", "D", "E", "F"}) =>
        LET asD == update_pollution_multiple(pre, [last.args EXCEPT !.stability_class = "D"])
        IN  /\ last.status = asD.status
            /\ last.written # {} =>
                  /\ calculate_dispersion_coefficients(last.args.stability_class)
                         = [a |-> 100, b |-> 50]
                  /\ calculate_dispersion_coefficients(last.args.stability_class)
                         = calculate_dispersion_coefficients("D")
            /\ grid = asD.grid

\* C5: a successful batch call multiplies every cell by 0.99 exactly once,
\* before any source contribution and whatever the number of sources: a cell
\* in no source's window ends as 0.99 times its old value, in every cell the old
\* value appears decayed once beside this call's undecayed contributions, and
\* with an empty list the whole grid is the old grid times 0.99.
C5_DecayAppliedOnce ==
    BatchOk =>
        /\ \A c \in Cells : ~InSomeWindow(c) => grid[c] = DecayCell(pre[c])
        /\ \A c \in Cells : OlderPart(grid[c]) = DecayCell(pre[c])
        /\ last.args.vehicle_list = <<>> => grid = [c \in Cells |-> DecayCell(pre[c])]

C5_Witness ==
    /\ BatchOk
    /\ Len(last.args.vehicle_list) = 2
    /\ \E c \in Cells : ~InSomeWindow(c) /\ pre[c] # EmptyBag /\ grid[c] # pre[c]
    /\ \E c \in last.written : pre[c] # EmptyBag

\* C6: update_pollution leaves unchanged every cell of its window whose centre
\* is nearer than 1 unit to the source or farther than 300 units from it, also
\* when the window reaches beyond the 300-unit range (stated for the windows
\* that lie within the grid).
C6_CutoffCellsUnchanged ==
    (Single /\ ValidWind /\ last.status = "ok" /\ ~WindowOutsideExtents(last.args)) =>
        \A c \in Cells :
            (/\ InWindow(c, last.args)
             /\ \/ NearField(last.args.geom, c[1], c[2], last.args.x, last.args.y)
                \/ FarField(last.args.geom, c[1], c[2], last.args.x, last.args.y))
                => (grid[c] = pre[c] /\ c \notin last.written)

\* C6 restricted to cs_module.c's update_pollution.
C6_CsModuleOnly == (Single /\ last.module = "cs_module") => C6_CutoffCellsUnchanged

\* C7: for every source position the window indices are valid and in range:
\* 0 <= i_min <= i_max <= rows and 0 <= j_min <= j_max <= columns.
C7_WindowIndicesInRange ==
    last.op = "window" =>
        /\ 0 <= last.window.i_min /\ last.window.i_min <= last.window.i_max
        /\ last.window.i_max <= Rows
        /\ 0 <= last.window.j_min /\ last.window.j_min <= last.window.j_max
        /\ last.window.j_max <= Cols

\* What the window computation does guarantee: the cell loop's indices are in range.
C7_LoopIndicesInRange ==
    last.op = "window" =>
        /\ 0 <= last.window.i_min /\ last.window.i_max <= Rows
        /\ 0 <= last.window.j_min /\ last.window.j_max <= Cols

\* C8: a batch of well-formed sources yields the same final grid for every
\* permutation of the source list.
C8_SourceOrderIrrelevant ==
    BatchOk =>
        \A p \in Permutations(1 .. Len(last.args.vehicle_list)) :
            update_pollution_multiple(pre,
                [last.args EXCEPT !.vehicle_list =
                    [k \in 1 .. Len(last.args.vehicle_list) |-> last.args.vehicle_list[p[k]]]]).grid
                = grid

C8_Witness ==
    /\ BatchOk
    /\ Len(last.args.vehicle_list) = 2
    /\ last.args.vehicle_list[1] # last.args.vehicle_list[2]
    /\ \E c \in Cells : InWindow(c, last.windows[1]) /\ InWindow(c, last.windows[2])
                          /\ BagCardinality(grid[c]) = BagCardinality(pre[c]) + 2

\* C9: emission_rate = 0.1 * speed_factor * emission_factor with speed_factor 1
\* up to and including 20 m/s and 1 + 0.05 * (speed - 20) above, and
\* plume_height = max(2.0, 0.15 * speed + 0.5); a 30 m/s source gets a strictly
\* larger rate and height than a 10 m/s source, whose factor is exactly 1 and
\* whose height is exactly 2.0.
C9_DerivedParameters ==
    last.op = "derive" =>
        /\ \A k \in 1 .. 2 :
            LET s == last.vehicle_speed[k]
            IN  /\ s <= 20 => last.emission_rate[k] = 100 * last.emission_factor
                /\ s > 20 => last.emission_rate[k] = (100 + 5 * (s - 20)) * last.emission_factor
                /\ 15 * s + 50 >= 200 => last.plume_height[k] = 15 * s + 50
                /\ 15 * s + 50 < 200 => last.plume_height[k] = 200
        /\ (last.vehicle_speed[1] = 10 /\ last.vehicle_speed[2] = 30) =>
            /\ last.emission_rate[2] > last.emission_rate[1]
            /\ last.plume_height[2] > last.plume_height[1]
            /\ last.emission_rate[1] = 100 * last.emission_factor
            /\ last.plume_height[1] = 200

C9_Witness ==
    /\ last.op = "derive"
    /\ last.vehicle_speed = <<10, 30>>
    /\ last.emission_factor = 2
    /\ last.emission_rate = <<200, 300>>
    /\ last.plume_height = <<200, 500>>

\* The centre of cell c lies within the influence radius of the source on both axes.
CentreWithinRadius(c, x, y, geom) ==
    /\ ScaledDx(geom, c[2], x) <= InfluenceRadius * 2 * geom.grid_resolution
    /\ ScaledDx(geom, c[2], x) >= -(InfluenceRadius * 2 * geom.grid_resolution)
    /\ ScaledDy(geom, c[1], y) <= InfluenceRadius * 2 * geom.grid_resolution
    /\ ScaledDy(geom, c[1], y) >= -(InfluenceRadius * 2 * geom.grid_resolution)

\* C10: the window covers the square of side 200 centred on the source, clipped
\* to the grid: every cell whose centre is within 100 units of the source on
\* both axes is inside the window.
C10_WindowCoversSquare ==
    last.op = "window" =>
        \A c \in Cells :
            CentreWithinRadius(c, last.x, last.y, last.geom) => InWindow(c, last.window)

====
